---- MODULE Spec2Model ----
(***************************************************************************)
(* nasty-boii: a scan of a directory tree for git repositories whose       *)
(* current branch has commits that are not pushed.  The model follows      *)
(* src/src/main.rs: argument parsing and tracing setup, the WalkDir        *)
(* pipeline that collects the repository paths, the rayon par_iter that    *)
(* classifies every path with check_repo_status, and the lines written to  *)
(* standard output.                                                        *)
(***************************************************************************)
EXTENDS Integers, Sequences, FiniteSets, TLC

VARIABLES
    root,               \* the directory named by args.path: [name, kind]
    fs,                 \* the entries below the root, numbered 1..Len(fs)
    pc,                 \* where main() is
    filter,             \* the level the EnvFilter lets through
    missing_head_mode,  \* args.missing_head
    pool,               \* number of threads of the rayon pool
    stack,              \* WalkDir: entries still to be yielded, next one first
    visited,            \* WalkDir: entries that passed filter_entry, in order
    all_entries,        \* the collected repository paths
    worker,             \* per pool thread: index into all_entries, or Idle
    taken,              \* indices of all_entries handed to a pool thread
    repos,              \* per index: the repository state Repository::open met
    outcome,            \* per index: what check_repo_status returned
    stdout,             \* lines written to standard output
    stderr,             \* lines written to standard error
    exit_code,          \* "running", or the process's exit code
    exclude_from,       \* the pattern --exclude-from was given, if it was
    num_threads         \* args.threads, as given to the pool builder

vars == <<root, fs, pc, filter, missing_head_mode, pool, stack, visited,
          all_entries, worker, taken, repos, outcome, stdout, stderr, exit_code,
          exclude_from, num_threads>>

----------------------------------------------------------------------------
(* Bounds *)

\* entries below the root in the trees of the walker's specification
MaxNodes == 3
\* repositories below the root in the whole-scan specification
MaxRepos == 2
\* commits on each side of the fork in a repository's history
ChainLen == 1
\* largest thread pool
MaxThreads == 2

----------------------------------------------------------------------------
(* File names.  A name is the sequence of its pieces, "." and "/" being     *)
(* pieces of their own, so that starts_with and == are computed on it.      *)

DotGit == <<".", "git">>
Dot == <<".">>
DotDot == <<".", ".">>
DotDotSlashDotDot == <<".", ".", "/", ".", ".">>
DotHidden == <<".", "hidden">>
DotCache == <<".", "cache">>
Project == <<"project">>
Vendor == <<"vendor">>

StartsWith(name, prefix) ==
    /\ Len(name) >= Len(prefix)
    /\ SubSeq(name, 1, Len(prefix)) = prefix

\* names an entry below the root can have
EntryNames == {DotGit, DotCache, Project, Vendor}
\* what DirEntry::file_name() can give for the root (depth 0): the last
\* component of args.path, or the whole path when it has none
RootNames == {Dot, DotDotSlashDotDot, DotHidden, Project, DotGit}
\* "file" stands for every file type whose is_dir() is false
Kinds == {"dir", "file"}

----------------------------------------------------------------------------
(* The directory tree.  Entry 0 is the root; entry n > 0 is fs[n], with its *)
(* parent fs[n].par < n.  Parents are numbered before children and         *)
(* children of one directory are adjacent, so every tree shape appears     *)
(* once.  Outside is the parent of the root.                                *)

Outside == -1

Entries(n, names, kinds) == [par : 0..n, name : names, kind : kinds]

ValidEntry(t, e) ==
    /\ e.par >= (IF Len(t) = 0 THEN 0 ELSE t[Len(t)].par)
    /\ e.par = 0 \/ t[e.par].kind = "dir"
    /\ \A i \in 1..Len(t) : t[i].par = e.par => t[i].name # e.name

\* the trees of n entries below the root, named and typed from the given sets
RECURSIVE TreesOfSize(_, _, _)
TreesOfSize(n, names, kinds) ==
    IF n = 0 THEN {<<>>}
    ELSE UNION { {Append(t, e) : e \in {x \in Entries(n - 1, names, kinds) : ValidEntry(t, x)}} :
                 t \in TreesOfSize(n - 1, names, kinds) }

Trees(max, names, kinds) == UNION {TreesOfSize(n, names, kinds) : n \in 0..max}

\* a root that is a directory, under each name, and a path that does not exist
MissingRoot == [name |-> Project, kind |-> "missing"]
Roots == [name : RootNames, kind : {"dir"}] \cup {MissingRoot}

\* the layout of the test fixtures: k directories below the root, each a
\* working tree with its .git directory
FixtureTree(k) ==
    [n \in 1..(2 * k) |->
        IF n <= k THEN [par |-> 0, name |-> <<"repo", n>>, kind |-> "dir"]
        ELSE [par |-> n - k, name |-> DotGit, kind |-> "dir"]]

Nodes == 0..Len(fs)
NameOf(e) == IF e = 0 THEN root.name ELSE fs[e].name
KindOf(e) == IF e = 0 THEN root.kind ELSE fs[e].kind
ParentOf(e) == IF e = 0 THEN Outside ELSE fs[e].par
Children(e) == {c \in 1..Len(fs) : fs[c].par = e}

\* the entries of a set in increasing order (the order read_dir returns them)
RECURSIVE SortedSeq(_)
SortedSeq(S) ==
    IF S = {} THEN <<>>
    ELSE LET m == CHOOSE x \in S : \A y \in S : x <= y
         IN <<m>> \o SortedSeq(S \ {m})

RECURSIVE Ancestors(_)
Ancestors(e) ==
    IF e = 0 \/ e = Outside THEN {}
    ELSE {ParentOf(e)} \cup Ancestors(ParentOf(e))

----------------------------------------------------------------------------
(* Command line and tracing setup *)

Levels == {"off", "error", "warn", "info", "debug", "trace"}

\* tracing's order of verbosity: an event passes a filter of its rank or more
Rank(l) ==
    CASE l = "off" -> 0
      [] l = "error" -> 1
      [] l = "warn" -> 2
      [] l = "info" -> 3
      [] l = "debug" -> 4
      [] l = "trace" -> 5

\* Option<usize>::None for --threads
NoThreads == -1
\* no --exclude-from on the command line
NoExclude == <<>>
\* RUST_LOG not set
NoEnv == "unset"

\* what the user can type: the options Args declares, and --exclude-from
\* <file> (a file holding one pattern), which Args does not declare
Argv == [threads : {NoThreads} \cup 0..MaxThreads, log_level : Levels,
         verbose : BOOLEAN, missing_head : BOOLEAN,
         exclude_from : {NoExclude, Vendor}]
\* the command lines without options that only change the log or the pool
PlainArgv == {a \in Argv : a.threads = NoThreads /\ a.log_level = "warn"
                           /\ ~a.verbose /\ ~a.missing_head}
RustLog == {NoEnv} \cup Levels

\* clap: an option Args does not declare is a usage error
ParseOk(argv) == argv.exclude_from = NoExclude

LogLevel(args, rust_log) ==
    LET default_log_level == IF args.missing_head THEN "error" ELSE args.log_level
        log_level == IF args.verbose THEN "info" ELSE default_log_level
    IN IF rust_log # NoEnv THEN rust_log ELSE log_level

\* std::thread::available_parallelism, rayon's default pool size: the scan
\* runs on a machine of two cores
AvailableParallelism == 2

PoolSize(threads) ==
    IF threads = NoThreads \/ threads = 0 THEN AvailableParallelism ELSE threads

----------------------------------------------------------------------------
(* Output.  A line is a record; a matched path is written by println!, a    *)
(* diagnostic by the tracing macros through the fmt subscriber.             *)

PathLine(p) == [kind |-> "path", level |-> "", msg |-> "", path |-> <<p>>]
LogLine(level, msg, path) == [kind |-> "log", level |-> level, msg |-> msg, path |-> path]
UsageLine == [kind |-> "usage", level |-> "error", msg |-> "unexpected argument", path |-> <<>>]

\* a subscriber that lets every event through
EventUnfiltered(f, level, msg, path) == <<LogLine(level, msg, path)>>

\* the lines an event adds to the subscriber's stream under filter f
Event(f, level, msg, path) ==
    IF Rank(level) <= Rank(f) THEN <<LogLine(level, msg, path)>> ELSE <<>>

\* fmt() without with_writer writes to standard output
LogStream == "stdout"

ToStdout(logs, prints) == (IF LogStream = "stdout" THEN logs ELSE <<>>) \o prints
ToStderr(logs) == IF LogStream = "stderr" THEN logs ELSE <<>>

----------------------------------------------------------------------------
(* Repositories.  The history is a fork: commit 1 is the base, commits      *)
(* 2..ChainLen+1 are made locally on top of it, and commits                 *)
(* ChainLen+2..2*ChainLen+1 on the remote.                                  *)

NoOid == 0
Commits == 1..(2 * ChainLen + 1)
FirstLocal == 2
FirstRemote == ChainLen + 2

Parents(c) ==
    IF c = 1 THEN {}
    ELSE IF c = FirstLocal \/ c = FirstRemote THEN {1}
    ELSE {c - 1}

RECURSIVE Reachable(_)
Reachable(c) == {c} \cup UNION {Reachable(p) : p \in Parents(c)}

RepoStates ==
    [open : BOOLEAN,                        \* Repository::open succeeds
     head : {"unborn", "detached", "branch"},  \* repo.head() fails / is no branch / is a branch
     shorthand : BOOLEAN,                   \* head.shorthand() is Some
     find_branch : BOOLEAN,                 \* repo.find_branch succeeds
     upstream : BOOLEAN,                    \* branch.upstream() succeeds
     local_oid : Commits \cup {NoOid},      \* branch.get().target()
     remote_oid : Commits \cup {NoOid},     \* upstream.get().target()
     odb : BOOLEAN]                         \* the commits can be read

Ok(s) == [ok |-> TRUE, val |-> s]
Err(why) == [ok |-> FALSE, val |-> why]

\* git2's graph_ahead_behind: the commits reachable from one and not the other
graph_ahead_behind(repo, local, upstream) ==
    IF ~repo.odb THEN Err("Failed to calculate ahead/behind")
    ELSE Ok(<<Cardinality(Reachable(local) \ Reachable(upstream)),
              Cardinality(Reachable(upstream) \ Reachable(local))>>)

\* the wrong decision that an unpushed commit counts only when nothing is
\* to be pulled
ahead_decision_unless_behind(counts) ==
    IF counts[1] > 0 /\ counts[2] = 0 THEN Ok("HasUnpushed") ELSE Ok("Clean")

\* check_repo_status, its last step: only the ahead count decides
ahead_decision(counts) ==
    IF counts[1] > 0 THEN Ok("HasUnpushed") ELSE Ok("Clean")

\* check_repo_status from the local and remote commit ids on
compare_with_upstream(repo) ==
    IF repo.local_oid = NoOid THEN Err("Failed to get local branch target")
    ELSE IF repo.remote_oid = NoOid THEN Err("Failed to get remote branch target")
    ELSE IF repo.local_oid = repo.remote_oid THEN Ok("Clean")
    ELSE LET ab == graph_ahead_behind(repo, repo.local_oid, repo.remote_oid)
         IN IF ~ab.ok THEN ab ELSE ahead_decision(ab.val)

\* the wrong result that a branch without upstream has nothing to push
upstream_or_clean(repo) ==
    IF ~repo.upstream THEN Ok("Clean") ELSE compare_with_upstream(repo)

\* check_repo_status, the upstream lookup
upstream_or_unpushed(repo) ==
    IF ~repo.upstream THEN Ok("HasUnpushed") ELSE compare_with_upstream(repo)

\* a classifier that goes on to the upstream without the branch lookup
check_branch_without_lookup(repo) ==
    IF ~repo.shorthand THEN Err("Failed to get branch name")
    ELSE upstream_or_unpushed(repo)

\* check_repo_status from the branch name to the upstream lookup
check_branch(repo) ==
    IF ~repo.shorthand THEN Err("Failed to get branch name")
    ELSE IF ~repo.find_branch THEN Err("Failed to find local branch")
    ELSE upstream_or_unpushed(repo)

\* the wrong order: the branch is looked up before HEAD is found detached
check_head_after_lookup(repo) ==
    IF repo.head = "unborn" THEN Ok("MissingHead")
    ELSE IF ~repo.shorthand THEN Err("Failed to get branch name")
    ELSE IF ~repo.find_branch THEN Err("Failed to find local branch")
    ELSE IF repo.head # "branch" THEN Ok("Clean")
    ELSE upstream_or_unpushed(repo)

\* check_repo_status from repo.head() on
check_head(repo) ==
    IF repo.head = "unborn" THEN Ok("MissingHead")
    ELSE IF repo.head # "branch" THEN Ok("Clean")
    ELSE check_branch(repo)

check_repo_status(repo) ==
    IF ~repo.open THEN Err("Failed to open repository")
    ELSE check_head(repo)

\* check_repo_status of lib.rs, the copy the unit tests call: the same calls
\* on the repository, written with let-else; a result's error is the context
\* of the failing call (for open, the context without the path, which lib.rs
\* renders with Display and main.rs with Debug)
lib_check_repo_status(repo) ==
    IF ~repo.open THEN Err("Failed to open repository")
    ELSE IF repo.head = "unborn" THEN Ok("MissingHead")
    ELSE IF repo.head # "branch" THEN Ok("Clean")
    ELSE IF ~repo.shorthand THEN Err("Failed to get branch name")
    ELSE IF ~repo.find_branch THEN Err("Failed to find local branch")
    ELSE IF ~repo.upstream THEN Ok("HasUnpushed")
    ELSE IF repo.local_oid = NoOid THEN Err("Failed to get local branch target")
    ELSE IF repo.remote_oid = NoOid THEN Err("Failed to get remote branch target")
    ELSE IF repo.local_oid = repo.remote_oid THEN Ok("Clean")
    ELSE LET counts == graph_ahead_behind(repo, repo.local_oid, repo.remote_oid)
         IN IF ~counts.ok THEN counts
            ELSE IF counts.val[1] > 0 THEN Ok("HasUnpushed")
            ELSE Ok("Clean")

\* the repositories of the test fixtures, a detached checkout, and a
\* directory named .git that is no repository
Repo(open, head, upstream, local, remote) ==
    [open |-> open, head |-> head, shorthand |-> TRUE, find_branch |-> TRUE,
     upstream |-> upstream, local_oid |-> local, remote_oid |-> remote, odb |-> TRUE]
clean_repo == Repo(TRUE, "branch", TRUE, 1, 1)
nasty_repo == Repo(TRUE, "branch", TRUE, FirstLocal, 1)
missing_head_repo == Repo(TRUE, "unborn", FALSE, NoOid, NoOid)
no_upstream_repo == Repo(TRUE, "branch", FALSE, 1, NoOid)
behind_repo == Repo(TRUE, "branch", TRUE, 1, FirstRemote)
detached_repo == Repo(TRUE, "detached", FALSE, 1, NoOid)
broken_repo == Repo(FALSE, "unborn", FALSE, NoOid, NoOid)
ScanRepos == {clean_repo, nasty_repo, missing_head_repo, no_upstream_repo,
              behind_repo, detached_repo, broken_repo}

----------------------------------------------------------------------------
(* main(): parse, set up, walk *)

\* a pool thread that runs no closure
Idle == 0

InitOn(R, T) ==
    /\ root \in R
    /\ fs \in T
    /\ root.kind = "missing" => fs = <<>>
    /\ pc = "start"
    /\ filter = "off"
    /\ missing_head_mode = FALSE
    /\ pool = 0
    /\ stack = <<>>
    /\ visited = <<>>
    /\ all_entries = <<>>
    /\ worker = <<>>
    /\ taken = {}
    /\ repos = <<>>
    /\ outcome = <<>>
    /\ stdout = <<>>
    /\ stderr = <<>>
    /\ exit_code = "running"
    /\ exclude_from = NoExclude
    /\ num_threads = NoThreads

\* Args::parse(), the tracing subscriber, the first events and the thread
\* pool, for a command line of A and a RUST_LOG of E
Start(A, E) ==
    /\ pc = "start"
    /\ \E argv \in A, rust_log \in E :
        /\ exclude_from' = argv.exclude_from
        /\ num_threads' = IF ParseOk(argv) THEN argv.threads ELSE num_threads
        /\ IF ~ParseOk(argv)
           THEN /\ pc' = "exited"
                /\ exit_code' = "2"
                /\ stderr' = Append(stderr, UsageLine)
                /\ UNCHANGED <<filter, missing_head_mode, pool, stack, worker, stdout>>
           ELSE LET f == LogLevel(argv, rust_log)
                    logs == Event(f, "info", "Starting repository scan", <<0>>)
                            \o (IF argv.threads # NoThreads
                                THEN Event(f, "debug", "Configured thread pool", <<>>)
                                ELSE <<>>)
                IN /\ filter' = f
                   /\ missing_head_mode' = argv.missing_head
                   /\ pool' = PoolSize(argv.threads)
                   /\ worker' = [w \in 1..PoolSize(argv.threads) |-> Idle]
                   /\ stdout' = stdout \o ToStdout(logs, <<>>)
                   /\ stderr' = stderr \o ToStderr(logs)
                   /\ stack' = <<0>>
                   /\ pc' = "walk"
                   /\ UNCHANGED exit_code
    /\ UNCHANGED <<root, fs, visited, all_entries, taken, repos, outcome>>

\* the closure of filter_entry: whether the walker yields the entry and
\* descends into it
FilterEntry(name) ==
    IF name = DotGit THEN TRUE
    ELSE IF \/ name = Dot
            \/ name = DotDot
            \/ StartsWith(name, <<".", "/">>)
            \/ StartsWith(name, <<".", ".", "/">>)
         THEN TRUE
    ELSE ~StartsWith(name, Dot)

\* the closure of filter: the entries whose parent is collected
IsRepoMarker(e) == KindOf(e) = "dir" /\ NameOf(e) = DotGit

\* one item of the iterator chain: WalkDir takes the next entry, filter_entry
\* lets it through (and WalkDir then lists it, if it is a directory) or
\* skips it with all below it, filter_map drops an error, and the parent of
\* a directory named .git is collected
WalkStep ==
    /\ pc = "walk"
    /\ stack # <<>>
    /\ LET e == Head(stack)
           rest == Tail(stack)
       IN IF KindOf(e) = "missing" \/ ~FilterEntry(NameOf(e))
          THEN /\ stack' = rest
               /\ UNCHANGED <<visited, all_entries>>
          ELSE /\ visited' = Append(visited, e)
               /\ stack' = (IF KindOf(e) = "dir" THEN SortedSeq(Children(e)) ELSE <<>>)
                           \o rest
               /\ all_entries' = IF IsRepoMarker(e)
                                 THEN Append(all_entries, ParentOf(e))
                                 ELSE all_entries
    /\ UNCHANGED <<root, fs, pc, filter, missing_head_mode, pool, worker, taken,
                   repos, outcome, stdout, stderr, exit_code, exclude_from, num_threads>>

----------------------------------------------------------------------------
(* main(): all_entries.par_iter().for_each *)

\* a pipeline that hands paths to the pool while the walker still runs, as
\* par_bridge on the iterator would
DispatchWhileWalking ==
    /\ pc = "walk"
    /\ pc' = "scan"
    /\ UNCHANGED <<root, fs, filter, missing_head_mode, pool, stack, visited,
                   all_entries, worker, taken, repos, outcome, stdout, stderr,
                   exit_code, exclude_from, num_threads>>

\* collect() has returned and par_iter hands the paths to the pool
Dispatch ==
    /\ pc = "walk"
    /\ stack = <<>>
    /\ pc' = "scan"
    /\ UNCHANGED <<root, fs, filter, missing_head_mode, pool, stack, visited,
                   all_entries, worker, taken, repos, outcome, stdout, stderr,
                   exit_code, exclude_from, num_threads>>

\* a pool thread starts the closure on a path no thread has had
WorkerTake(w) ==
    /\ pc = "scan"
    /\ worker[w] = Idle
    /\ \E i \in (1..Len(all_entries)) \ taken :
        /\ worker' = [worker EXCEPT ![w] = i]
        /\ taken' = taken \cup {i}
        /\ LET logs == Event(filter, "info", "Found repository", <<all_entries[i]>>)
           IN /\ stdout' = stdout \o ToStdout(logs, <<>>)
              /\ stderr' = stderr \o ToStderr(logs)
    /\ UNCHANGED <<root, fs, pc, filter, missing_head_mode, pool, stack, visited,
                   all_entries, repos, outcome, exit_code, exclude_from, num_threads>>

\* the wrong match that prints every repository with a status but Clean
PrintsAnyMode(res, mode, p) ==
    IF res = Ok("HasUnpushed") \/ res = Ok("MissingHead") THEN <<PathLine(p)>>
    ELSE <<>>

\* the match on check_repo_status's result: the matched paths println! writes
Prints(res, mode, p) ==
    IF res = Ok("HasUnpushed") /\ ~mode THEN <<PathLine(p)>>
    ELSE IF res = Ok("MissingHead") /\ mode THEN <<PathLine(p)>>
    ELSE <<>>

\* the match on check_repo_status's result: the events
Events(res, mode, f, p) ==
    IF res = Ok("MissingHead") /\ ~mode THEN Event(f, "warn", "Repository has no HEAD", <<p>>)
    ELSE IF res = Ok("Clean") THEN Event(f, "debug", "Repository is clean", <<p>>)
    ELSE IF ~res.ok THEN Event(f, "warn", "Failed to check repository", <<p>>)
    ELSE <<>>

\* a closure that gives up the scan at the first error, as a ? on the
\* result would
WorkerCheckAbortOnError(w, R) ==
    /\ pc = "scan"
    /\ worker[w] # Idle
    /\ \E r \in R :
        LET i == worker[w]
            p == all_entries[i]
            res == check_repo_status(r)
            logs == Events(res, missing_head_mode, filter, p)
        IN /\ repos' = (i :> r) @@ repos
           /\ outcome' = (i :> res) @@ outcome
           /\ stdout' = stdout \o ToStdout(logs, Prints(res, missing_head_mode, p))
           /\ stderr' = stderr \o ToStderr(logs)
           /\ worker' = [worker EXCEPT ![w] = Idle]
           /\ pc' = IF res.ok THEN pc ELSE "exited"
           /\ exit_code' = IF res.ok THEN exit_code ELSE "1"
    /\ UNCHANGED <<root, fs, filter, missing_head_mode, pool, stack, visited,
                   all_entries, taken, exclude_from, num_threads>>

\* the rest of the closure: the thread classifies the repository, found in
\* one of the states of R, and reports
WorkerCheck(w, R) ==
    /\ pc = "scan"
    /\ worker[w] # Idle
    /\ \E r \in R :
        LET i == worker[w]
            p == all_entries[i]
            res == check_repo_status(r)
            logs == Events(res, missing_head_mode, filter, p)
        IN /\ repos' = (i :> r) @@ repos
           /\ outcome' = (i :> res) @@ outcome
           /\ stdout' = stdout \o ToStdout(logs, Prints(res, missing_head_mode, p))
           /\ stderr' = stderr \o ToStderr(logs)
           /\ worker' = [worker EXCEPT ![w] = Idle]
    /\ UNCHANGED <<root, fs, pc, filter, missing_head_mode, pool, stack, visited,
                   all_entries, taken, exit_code, exclude_from, num_threads>>

\* a main that reports failed classifications in its exit code
FinishFailsOnError ==
    /\ pc = "scan"
    /\ taken = 1..Len(all_entries)
    /\ \A w \in 1..pool : worker[w] = Idle
    /\ pc' = "exited"
    /\ exit_code' = IF \E i \in DOMAIN outcome : ~outcome[i].ok THEN "1" ELSE "0"
    /\ UNCHANGED <<root, fs, filter, missing_head_mode, pool, stack, visited,
                   all_entries, worker, taken, repos, outcome, stdout, stderr,
                   exclude_from, num_threads>>

\* for_each has returned: main returns Ok(())
Finish ==
    /\ pc = "scan"
    /\ taken = 1..Len(all_entries)
    /\ \A w \in 1..pool : worker[w] = Idle
    /\ pc' = "exited"
    /\ exit_code' = "0"
    /\ UNCHANGED <<root, fs, filter, missing_head_mode, pool, stack, visited,
                   all_entries, worker, taken, repos, outcome, stdout, stderr,
                   exclude_from, num_threads>>

----------------------------------------------------------------------------
(* Specifications *)

\* the whole scan, on small trees, every repository in one of ScanRepos
ScanRoots == {[name |-> Dot, kind |-> "dir"], [name |-> DotHidden, kind |-> "dir"],
              MissingRoot}
Init == InitOn(ScanRoots, {FixtureTree(k) : k \in 0..MaxRepos})
Next ==
    \/ Start(Argv, RustLog)
    \/ WalkStep
    \/ Dispatch
    \/ \E w \in 1..pool : WorkerTake(w)
    \/ \E w \in 1..pool : WorkerCheck(w, ScanRepos)
    \/ Finish
Spec == Init /\ [][Next]_vars

\* the whole scan with its scheduling: main runs on (parse, walk, dispatch,
\* return) and rayon's pool threads run as long as there is work, so a step
\* that stays possible is taken
\* The log options are left at their defaults: no step's guard reads the
\* filter.
DefaultLogArgv == {a \in Argv : a.log_level = "warn" /\ ~a.verbose}
NextFair ==
    \/ Start(DefaultLogArgv, {NoEnv})
    \/ WalkStep
    \/ Dispatch
    \/ \E w \in 1..pool : WorkerTake(w)
    \/ \E w \in 1..pool : WorkerCheck(w, ScanRepos)
    \/ Finish
SpecFair == Init /\ [][NextFair]_vars /\ WF_vars(NextFair)

\* the walk alone, on larger trees
InitWalk == InitOn(Roots, Trees(MaxNodes, EntryNames, Kinds))
NextWalk ==
    \/ Start(PlainArgv, {NoEnv})
    \/ WalkStep
SpecWalk == InitWalk /\ [][NextWalk]_vars

\* the whole scan of a directory holding one repository, in any state
OneRepo == {<<[par |-> 0, name |-> DotGit, kind |-> "dir"]>>}
InitRepo == InitOn({[name |-> Project, kind |-> "dir"]}, OneRepo)
NextRepo ==
    \/ Start(Argv, RustLog)
    \/ WalkStep
    \/ Dispatch
    \/ \E w \in 1..pool : WorkerTake(w)
    \/ \E w \in 1..pool : WorkerCheck(w, RepoStates)
    \/ Finish
SpecRepo == InitRepo /\ [][NextRepo]_vars

----------------------------------------------------------------------------
(* Claims about the scan and the classifier *)

\* the indices of all_entries whose classification has returned
Classified == DOMAIN outcome

\* how many lines of out are the matched path p
PathLines(out, p) == Cardinality({k \in 1..Len(out) : out[k] = PathLine(p)})

\* the status the active reporting mode prints
Reported == IF missing_head_mode THEN Ok("MissingHead") ELSE Ok("HasUnpushed")

\* C1: a discovered repository's path is written as a matched path exactly
\* when its status is the one the mode reports (HasUnpushed by default,
\* MissingHead with --missing-head): never before it is classified, never
\* for a Clean repository, and never more than once.
C1_OutputContract ==
    \A i \in 1..Len(all_entries) :
        LET n == PathLines(stdout, all_entries[i])
        IN /\ n <= 1
           /\ i \notin Classified => n = 0
           /\ i \in Classified =>
                /\ n = 1 <=> check_repo_status(repos[i]) = Reported
                /\ check_repo_status(repos[i]) = Ok("Clean") => n = 0

C1_Witness ==
    /\ pc = "exited"
    /\ ~missing_head_mode
    /\ \E i, j \in Classified :
        /\ repos[i] = nasty_repo /\ PathLines(stdout, all_entries[i]) = 1
        /\ repos[j] = clean_repo /\ PathLines(stdout, all_entries[j]) = 0

\* the repositories C2 is about: open succeeds, HEAD is a named local
\* branch, the upstream is there and both commit ids resolve
Tracking(r) ==
    /\ r.open /\ r.head = "branch" /\ r.shorthand /\ r.find_branch
    /\ r.upstream /\ r.local_oid # NoOid /\ r.remote_oid # NoOid

\* C2: for a tracking branch the result is HasUnpushed exactly when the
\* ahead count graph_ahead_behind gives is > 0, whatever the behind count;
\* it is Clean when the two commit ids are equal and when they differ with
\* an ahead count of 0.
C2_AheadDecides ==
    \A i \in Classified :
        LET r == repos[i]
            ab == graph_ahead_behind(r, r.local_oid, r.remote_oid)
        IN Tracking(r) =>
            /\ outcome[i] = Ok("HasUnpushed") <=> (ab.ok /\ ab.val[1] > 0)
            /\ r.local_oid = r.remote_oid => outcome[i] = Ok("Clean")
            /\ (r.local_oid # r.remote_oid /\ ab.ok /\ ab.val[1] = 0)
                    => outcome[i] = Ok("Clean")

\* a diverged branch (ahead and behind) is reported as HasUnpushed
C2_Witness ==
    \E i \in Classified :
        /\ Tracking(repos[i])
        /\ repos[i].odb
        /\ Cardinality(Reachable(repos[i].local_oid) \ Reachable(repos[i].remote_oid)) > 0
        /\ Cardinality(Reachable(repos[i].remote_oid) \ Reachable(repos[i].local_oid)) > 0
        /\ outcome[i] = Ok("HasUnpushed")

\* C3: a repository that opens, with HEAD on a named local branch that has
\* no upstream, is HasUnpushed, whatever the branch points to, and in
\* default mode its path is printed.
C3_NoUpstream ==
    \A i \in Classified :
        LET r == repos[i]
        IN (r.open /\ r.head = "branch" /\ r.shorthand /\ r.find_branch /\ ~r.upstream)
            => /\ outcome[i] = Ok("HasUnpushed")
               /\ ~missing_head_mode => PathLines(stdout, all_entries[i]) = 1

C3_Witness ==
    /\ ~missing_head_mode
    /\ \E i \in Classified :
        /\ repos[i].open /\ repos[i].head = "branch" /\ ~repos[i].upstream
        /\ repos[i].local_oid = NoOid
        /\ outcome[i] = Ok("HasUnpushed")
        /\ PathLines(stdout, all_entries[i]) = 1

\* the lines of out that name path p, matched path or diagnostic
Naming(out, p) == {k \in 1..Len(out) : out[k].path = <<p>>}

\* C4: a repository that opens and whose HEAD cannot be resolved is
\* MissingHead, a successful result, and in default mode nothing written to
\* standard output names it.
C4_MissingHead ==
    \A i \in Classified :
        (repos[i].open /\ repos[i].head = "unborn")
            => /\ outcome[i] = Ok("MissingHead")
               /\ ~missing_head_mode => Naming(stdout, all_entries[i]) = {}

\* what does hold of such a repository: the result is Ok(MissingHead), and
\* println! writes its path with --missing-head only
MissingHeadIsAStatus ==
    \A i \in Classified :
        (repos[i].open /\ repos[i].head = "unborn")
            => /\ outcome[i] = Ok("MissingHead")
               /\ PathLines(stdout, all_entries[i]) = (IF missing_head_mode THEN 1 ELSE 0)

\* C5: a repository that opens with a detached HEAD is Clean, whatever the
\* branch lookup, the upstream and the commits would give.
C5_Detached ==
    \A i \in Classified :
        (repos[i].open /\ repos[i].head = "detached") => outcome[i] = Ok("Clean")

\* a detached HEAD is Clean though the branch lookup would fail and an
\* upstream with fewer commits exists
C5_Witness ==
    \E i \in Classified :
        /\ repos[i].open /\ repos[i].head = "detached"
        /\ ~repos[i].shorthand /\ ~repos[i].find_branch
        /\ repos[i].upstream
        /\ repos[i].local_oid = FirstLocal /\ repos[i].remote_oid = 1
        /\ outcome[i] = Ok("Clean")

\* a line of standard output is the path of a classified repository whose
\* status the mode reports
MatchedPath(l) ==
    /\ l.kind = "path"
    /\ \E i \in Classified : l.path = <<all_entries[i]>> /\ outcome[i] = Reported

----------------------------------------------------------------------------
(* Claims about the walk *)

\* a directory named .git
GitDir(e) == KindOf(e) = "dir" /\ NameOf(e) = DotGit

\* a name the hidden-directory rule is about: it begins with "." and is not
\* .git
HiddenName(name) == StartsWith(name, Dot) /\ name # DotGit

\* no entry between the root and e has a hidden name
ReachableBelowRoot(e) ==
    \A a \in Ancestors(e) \ {0} : ~HiddenName(NameOf(a))

\* the arguments were accepted and the walk has come to its end
WalkOver == pc # "start" /\ exit_code # "2" /\ stack = <<>>

Discovered == {all_entries[k] : k \in 1..Len(all_entries)}
Occurrences(p) == Cardinality({k \in 1..Len(all_entries) : all_entries[k] = p})

\* C6: the discovered paths hold the parent of every directory named .git
\* that is reachable from the root without passing through an entry with a
\* hidden name, each exactly once, and hold no path without a .git
\* subdirectory.
C6_WalkCompleteAndSound ==
    /\ \A p \in Discovered :
        /\ Occurrences(p) = 1
        /\ \E e \in Nodes : GitDir(e) /\ ParentOf(e) = p
    /\ (WalkOver /\ root.kind = "dir") =>
            \A e \in Nodes :
                (GitDir(e) /\ ReachableBelowRoot(e)) => Occurrences(ParentOf(e)) = 1

\* C7: no visited entry lies inside a directory named .git that the walker
\* reached below the root (the root itself is always entered).
C7_NoDescentIntoGitDir ==
    \A k \in 1..Len(visited) :
        \A a \in Ancestors(visited[k]) \ {0} : ~GitDir(a)

\* the entries the pattern of --exclude-from matches (a directory of that
\* name), and what lies below them
Ignored(e) ==
    \E a \in ({e} \cup Ancestors(e)) \ {0} :
        KindOf(a) = "dir" /\ NameOf(a) = exclude_from

\* C8: with --exclude-from, the run discovers the repositories that are
\* neither below a hidden name nor matched by a pattern or below a match,
\* and no others: {project} for project/.git and project/vendor/.git with
\* vendor/ excluded.
C8_ExcludeFromPrunes ==
    (exclude_from # NoExclude /\ pc = "exited" /\ ~HiddenName(root.name)) =>
        Discovered = {ParentOf(e) : e \in {x \in Nodes : /\ GitDir(x)
                                                        /\ ReachableBelowRoot(x)
                                                        /\ ~Ignored(x)}}

\* C9: whatever the root is called, the walker enters it: the repositories
\* it discovers below the root are those it discovers under any other name,
\* the parents of the .git directories with no hidden name between the root
\* and them.
C9_RootNeverExcluded ==
    (WalkOver /\ root.kind = "dir") =>
        Discovered \ {Outside}
            = {ParentOf(e) : e \in {x \in 1..Len(fs) : GitDir(x) /\ ReachableBelowRoot(x)}}

\* what the walk does find: all of C6 and C9 under a root whose name passes
\* filter_entry, and nothing at all under a root whose name does not
WalkUnderPassingRoot ==
    (WalkOver /\ root.kind = "dir") =>
        IF FilterEntry(root.name)
        THEN /\ \A e \in Nodes :
                    (GitDir(e) /\ ReachableBelowRoot(e)) => Occurrences(ParentOf(e)) = 1
             /\ Discovered \ {Outside}
                    = {ParentOf(e) : e \in {x \in 1..Len(fs) : GitDir(x) /\ ReachableBelowRoot(x)}}
        ELSE visited = <<>> /\ all_entries = <<>>

----------------------------------------------------------------------------
(* Claims about errors, termination and the pool *)

\* the indices whose classification returned an error
Failed == {i \in Classified : ~outcome[i].ok}

\* C11: a classification error stays with its repository.  The failing
\* repository's path is not written as a matched path; every classified
\* repository's result is check_repo_status of its own state and its path is
\* written exactly when that result is the one the mode reports, whatever
\* the other repositories did; and after an error the scan goes on: the
\* process is still scanning, or it has exited with code 0 after classifying
\* every collected path.
C11_ErrorsConfined ==
    /\ \A j \in Classified :
        LET n == PathLines(stdout, all_entries[j])
        IN /\ ~outcome[j].ok => n = 0
           /\ outcome[j] = check_repo_status(repos[j])
           /\ n = (IF outcome[j] = Reported THEN 1 ELSE 0)
    /\ Failed # {} =>
        /\ pc \in {"scan", "exited"}
        /\ pc = "scan" => exit_code = "running"
        /\ pc = "exited" => exit_code = "0" /\ Classified = 1..Len(all_entries)

\* a finished scan in which a repository failed to open, the warning was
\* written, and a repository classified after it was printed
C11_Witness ==
    /\ pc = "exited"
    /\ exit_code = "0"
    /\ \E i \in Failed, j \in Classified :
        /\ repos[i] = broken_repo
        /\ outcome[j] = Reported
        /\ \E k, l \in 1..Len(stdout) :
            /\ k < l
            /\ stdout[k] = LogLine("warn", "Failed to check repository", <<all_entries[i]>>)
            /\ stdout[l] = PathLine(all_entries[j])

\* the scan is over and complete: every collected path was handed out and
\* classified, and no pool thread is still at work
ScanComplete ==
    /\ taken = 1..Len(all_entries)
    /\ Classified = taken
    /\ \A w \in 1..pool : worker[w] = Idle

\* C12: once the arguments are parsed and the walk has begun, the process
\* eventually exits, with code 0 and with every collected path classified;
\* at no time does a pool thread hold a path that is already classified (so
\* each path is classified once), and the process never exits after the
\* walk began with another code or with a path left unclassified.
C12_TerminatesWithSuccess ==
    /\ [](pc = "walk" => <>(pc = "exited" /\ exit_code = "0" /\ ScanComplete))
    /\ [](\A w \in 1..pool : worker[w] # Idle => worker[w] \notin Classified)
    /\ [](pc = "exited" /\ exit_code # "2" => exit_code = "0" /\ ScanComplete)

\* a scan that exited with code 0 although every one of its repositories
\* failed to classify
C12_Witness ==
    /\ pc = "exited"
    /\ exit_code = "0"
    /\ Len(all_entries) >= 2
    /\ Failed = 1..Len(all_entries)

\* the same exit for a root that does not exist
C12_WitnessMissingRoot ==
    /\ pc = "exited"
    /\ exit_code = "0"
    /\ root.kind = "missing"
    /\ all_entries = <<>>

\* the pool threads that run the closure
InProgress == {w \in 1..pool : worker[w] # Idle}

\* C13: with --threads N given, at most N classifications are in progress;
\* a pool thread holds one path, which was handed out and is not yet
\* classified; and no two pool threads hold the same path.
C13_AtMostNInProgress ==
    /\ num_threads # NoThreads => Cardinality(InProgress) <= num_threads
    /\ \A w \in InProgress : worker[w] \in taken \ Classified
    /\ \A v, w \in InProgress : v # w => worker[v] # worker[w]

\* what holds of the pool: the bound is N for N >= 1, and the default
\* parallelism for --threads 0 as for no --threads
PoolBoundsInProgress ==
    /\ num_threads >= 1 => Cardinality(InProgress) <= num_threads
    /\ num_threads \in {NoThreads, 0} => Cardinality(InProgress) <= AvailableParallelism
    /\ \A w \in InProgress : worker[w] \in taken \ Classified
    /\ \A v, w \in InProgress : v # w => worker[v] # worker[w]

----------------------------------------------------------------------------
(* Claims about the phases and the two classifiers *)

\* the walker yields an entry when the root exists and the entry and all
\* above it pass filter_entry
Yielded(e) ==
    /\ root.kind # "missing"
    /\ \A a \in Ancestors(e) \cup {e} : FilterEntry(NameOf(a))

\* what the whole walk collects
WalkResult == {ParentOf(e) : e \in {x \in Nodes : IsRepoMarker(x) /\ Yielded(x)}}

\* a line a classification writes: a matched path or an event of the closure
ClosureLine(l) ==
    \/ l.kind = "path"
    \/ l.kind = "log" /\ l.msg # "Starting repository scan"
                      /\ l.msg # "Configured thread pool"

\* C14: while the walker has entries left, no path is handed to the pool,
\* classified or printed; from the first classification on, the walk is
\* over and the collected paths are all the walk collects; and a scan that
\* exited has classified exactly the collected paths.
C14_StrictlyPhased ==
    /\ (pc = "walk" \/ stack # <<>>) =>
        /\ taken = {}
        /\ Classified = {}
        /\ InProgress = {}
        /\ \A k \in 1..Len(stdout) : ~ClosureLine(stdout[k])
    /\ (taken # {} \/ pc = "scan" \/ (pc = "exited" /\ exit_code = "0")) =>
        /\ stack = <<>>
        /\ Discovered = WalkResult
    /\ Classified \subseteq taken
    /\ taken \subseteq 1..Len(all_entries)
    /\ (pc = "exited" /\ exit_code = "0") =>
        {all_entries[i] : i \in Classified} = Discovered

\* a scan of two repositories of which one is classified and the other is
\* still waiting for a pool thread
C14_Witness ==
    /\ pc = "scan"
    /\ Len(all_entries) >= 2
    /\ Classified # {}
    /\ taken # 1..Len(all_entries)

\* C15: for every state of a repository, check_repo_status of lib.rs returns
\* what check_repo_status of main.rs returned in the scan: the same status,
\* or an error of the same step.
C15_ClassifiersAgree ==
    \A i \in Classified : lib_check_repo_status(repos[i]) = outcome[i]

\* HEAD on a local branch that cannot be looked up: both copies fail there
C15_Witness ==
    \E i \in Classified :
        /\ repos[i].open /\ repos[i].head = "branch" /\ repos[i].shorthand
        /\ ~repos[i].find_branch
        /\ outcome[i] = Err("Failed to find local branch")
        /\ lib_check_repo_status(repos[i]) = Err("Failed to find local branch")

====
